---- MODULE Spec2Model ----
(***************************************************************************)
(* Model of framework/wazuh/core/wazuh_queue.py: the WazuhQueue client     *)
(* that frames a command for one agent or for all agents and writes it to  *)
(* a Unix datagram socket.                                                 *)
(*                                                                         *)
(* Python str values are TLA+ strings; the bytes handed to the socket are  *)
(* sequences of integers in 0..255 produced by encode.  The socket is a    *)
(* stub that records the calls made on it; whether a call fails, and what  *)
(* the kernel reports, is chosen by the environment.                       *)
(***************************************************************************)
EXTENDS Integers, Sequences, FiniteSets, TLC

VARIABLES
    obj,        \* "absent" | "constructed" | "failed": the WazuhQueue object
    path,       \* self.path
    sock,       \* "none" | "open" | "connected" | "closed": self.socket
    connlog,    \* socket calls recorded during _connect, in order
    req,        \* arguments of the last send_msg_to_agent invocation
    sent,       \* socket writes recorded during the last invocation
    result,     \* outcome of the last operation (return value or exception)
    ninv,       \* number of send_msg_to_agent invocations so far
    nwrites,    \* number of socket writes recorded so far
    fmt         \* a call of create_wazuh_queue_socket_msg: arguments and value

chan == <<obj, path, sock, connlog, req, sent, result, ninv, nwrites>>

vars == <<chan, fmt>>

(***************************************************************************)
(* Bounds of the model.                                                    *)
(***************************************************************************)
MaxInvocations == 2

(***************************************************************************)
(* Class constants of WazuhQueue.                                          *)
(***************************************************************************)
HC_SK_RESTART == "syscheck restart"
HC_FORCE_RECONNECT == "force_reconnect"
RESTART_AGENTS == "restart-ossec0"
RESTART_AGENTS_JSON ==
    "{\"origin\": {\"module\": \"framework\"}, \"command\": \"restart-wazuh0\", \"parameters\": {\"extra_args\": [], \"alert\": {}}}"
AR_TYPE == "ar-message"
OS_MAXSTR == 6144
MAX_MSG_SIZE == OS_MAXSTR + 256

(***************************************************************************)
(* Inputs the callers and the environment are drawn from.                  *)
(***************************************************************************)
Payloads ==
    { HC_SK_RESTART, HC_FORCE_RECONNECT, RESTART_AGENTS, RESTART_AGENTS_JSON,
      "!test.sh arg1", "restart-ossec0 arg1", "" }

AgentIds == { "", "000", "007" }

MsgTypes == { AR_TYPE, "", "control" }

Paths == { "/var/ossec/queue/alerts/ar", "/var/ossec/queue/alerts/execq" }

SndBufSizes == { 2304, 6399, 6400, 212992 }

ConnectFaults == { "none", "socket", "connect", "getsockopt", "setsockopt" }

\* arguments create_wazuh_queue_socket_msg is called with on its own
FmtFlags == { "NNS", "N!S", "ANN", "A!N", "", "XYZ" }

FmtTargets == { "(null)", "007", "" }

(***************************************************************************)
(* str.encode(): UTF-8.  The payloads of the model are printable ASCII, so *)
(* every character is one byte, its code point.                            *)
(***************************************************************************)
Printable ==
    " !\"#$%&'()*+,-./0123456789:;<=>?@ABCDEFGHIJKLMNOPQRSTUVWXYZ[\\]^_"

PrintableLower == "abcdefghijklmnopqrstuvwxyz{|}~"

Chars(s) == { SubSeq(s, i, i) : i \in 1..Len(s) }

\* code point of a character: Printable starts at 32, PrintableLower at 97
ord ==
    [c \in Chars(Printable) \cup Chars(PrintableLower) |->
        IF c \in Chars(Printable)
        THEN 31 + (CHOOSE i \in 1..Len(Printable) : SubSeq(Printable, i, i) = c)
        ELSE 96 + (CHOOSE i \in 1..Len(PrintableLower) : SubSeq(PrintableLower, i, i) = c)]

encode(s) == [i \in 1..Len(s) |-> ord[SubSeq(s, i, i)]]

(***************************************************************************)
(* create_wazuh_queue_socket_msg                                           *)
(***************************************************************************)
\* the frame without its "[] " field
create_wazuh_queue_socket_msg_NoBrackets(flag, str_agent_id, msg, is_restart) ==
    IF ~is_restart
    THEN "(msg_to_agent) " \o flag \o " " \o str_agent_id \o " " \o msg
    ELSE "(msg_to_agent) " \o flag \o " " \o str_agent_id \o " " \o msg
             \o " - null (from_the_server) (no_rule_id)"

\* the suffix left out of a broadcast
create_wazuh_queue_socket_msg_SuffixWhenTargeted(flag, str_agent_id, msg, is_restart) ==
    IF ~(is_restart /\ str_agent_id # "(null)")
    THEN "(msg_to_agent) [] " \o flag \o " " \o str_agent_id \o " " \o msg
    ELSE "(msg_to_agent) [] " \o flag \o " " \o str_agent_id \o " " \o msg
             \o " - null (from_the_server) (no_rule_id)"

create_wazuh_queue_socket_msg(flag, str_agent_id, msg, is_restart) ==
    IF ~is_restart
    THEN "(msg_to_agent) [] " \o flag \o " " \o str_agent_id \o " " \o msg
    ELSE "(msg_to_agent) [] " \o flag \o " " \o str_agent_id \o " " \o msg
             \o " - null (from_the_server) (no_rule_id)"

(***************************************************************************)
(* send_msg_to_agent, the part before the socket is touched.               *)
(***************************************************************************)
msg_is_no_ar(msg) == msg \in { HC_SK_RESTART, HC_FORCE_RECONNECT }

msg_is_restart(msg) == msg \in { RESTART_AGENTS, RESTART_AGENTS_JSON }

\* the agent_id of the request before kept when none is given
Truthy_Sticky(agent_id) == agent_id # "" \/ req.agent_id # ""

\* Python truth value of agent_id
Truthy(agent_id) == agent_id # ""

\* the two branches on msg_is_no_ar exchanged
Flag_Swapped(msg, agent_id) ==
    IF Truthy(agent_id)
    THEN (IF msg_is_no_ar(msg) THEN "NNS" ELSE "N!S")
    ELSE (IF msg_is_no_ar(msg) THEN "ANN" ELSE "A!N")

\* no flag for a broadcast
Flag_NoBroadcast(msg, agent_id) ==
    IF Truthy(agent_id)
    THEN (IF ~msg_is_no_ar(msg) THEN "NNS" ELSE "N!S")
    ELSE ""

Flag(msg, agent_id) ==
    IF Truthy(agent_id)
    THEN (IF ~msg_is_no_ar(msg) THEN "NNS" ELSE "N!S")
    ELSE (IF ~msg_is_no_ar(msg) THEN "ANN" ELSE "A!N")

\* the placeholder left out for a broadcast
StrAgentId_Empty(agent_id) == agent_id

\* the placeholder used for every request
StrAgentId_AlwaysNull(agent_id) == "(null)"

StrAgentId(agent_id) == IF Truthy(agent_id) THEN agent_id ELSE "(null)"

\* the default message type taken for the active-response one
IsAR_DefaultIsAR(msg_type) == msg_type \in { AR_TYPE, "" }

\* the branch taken on msg_type
IsAR(msg_type) == msg_type = AR_TYPE

\* an empty message is let through
InvalidCommand_Lax(msg, msg_type) ==
    ~IsAR(msg_type) /\ ~msg_is_no_ar(msg) /\ ~msg_is_restart(msg) /\ msg # ""

\* the check done before the branch on msg_type
InvalidCommand_AnyType(msg, msg_type) ==
    ~msg_is_no_ar(msg) /\ ~msg_is_restart(msg)

\* the check skipped when the socket is not usable
InvalidCommand_OnlyWhenConnected(msg, msg_type) ==
    sock = "connected" /\ ~IsAR(msg_type) /\ ~msg_is_no_ar(msg) /\ ~msg_is_restart(msg)

\* raise WazuhInternalError(1012, msg)
InvalidCommand(msg, msg_type) ==
    ~IsAR(msg_type) /\ ~msg_is_no_ar(msg) /\ ~msg_is_restart(msg)

\* is_restart passed in the active-response branch as well
SocketMsg_ARRestart(msg, agent_id, msg_type) ==
    IF IsAR(msg_type)
    THEN (IF agent_id # "000"
          THEN create_wazuh_queue_socket_msg(Flag(msg, agent_id), StrAgentId(agent_id), msg,
                                             msg_is_restart(msg))
          ELSE msg)
    ELSE create_wazuh_queue_socket_msg(Flag(msg, agent_id), StrAgentId(agent_id), msg,
                                       msg_is_restart(msg))

\* the manager's id framed like any other agent
SocketMsg_AlwaysFramed(msg, agent_id, msg_type) ==
    IF IsAR(msg_type)
    THEN create_wazuh_queue_socket_msg(Flag(msg, agent_id), StrAgentId(agent_id), msg, FALSE)
    ELSE create_wazuh_queue_socket_msg(Flag(msg, agent_id), StrAgentId(agent_id), msg,
                                       msg_is_restart(msg))

\* is_restart never passed
SocketMsg_ControlNoRestart(msg, agent_id, msg_type) ==
    IF IsAR(msg_type)
    THEN (IF agent_id # "000"
          THEN create_wazuh_queue_socket_msg(Flag(msg, agent_id), StrAgentId(agent_id), msg, FALSE)
          ELSE msg)
    ELSE create_wazuh_queue_socket_msg(Flag(msg, agent_id), StrAgentId(agent_id), msg, FALSE)

\* the manager's id sent raw whatever the message type
SocketMsg_RawForManager(msg, agent_id, msg_type) ==
    IF agent_id = "000" THEN msg
    ELSE create_wazuh_queue_socket_msg(Flag(msg, agent_id), StrAgentId(agent_id), msg,
                                       ~IsAR(msg_type) /\ msg_is_restart(msg))

\* is_restart set for every active-response frame
SocketMsg_ARSuffixAlways(msg, agent_id, msg_type) ==
    IF IsAR(msg_type)
    THEN (IF agent_id # "000"
          THEN create_wazuh_queue_socket_msg(Flag(msg, agent_id), StrAgentId(agent_id), msg, TRUE)
          ELSE msg)
    ELSE create_wazuh_queue_socket_msg(Flag(msg, agent_id), StrAgentId(agent_id), msg,
                                       msg_is_restart(msg))

SocketMsg(msg, agent_id, msg_type) ==
    IF IsAR(msg_type)
    THEN (IF agent_id # "000"
          THEN create_wazuh_queue_socket_msg(Flag(msg, agent_id), StrAgentId(agent_id), msg, FALSE)
          ELSE msg)
    ELSE create_wazuh_queue_socket_msg(Flag(msg, agent_id), StrAgentId(agent_id), msg,
                                       msg_is_restart(msg))

\* the two reconnect messages exchanged
RetMsg_ReconnectSwapped(msg, agent_id, msg_type) ==
    IF IsAR(msg_type) THEN "Command sent."
    ELSE IF msg = HC_SK_RESTART
         THEN (IF Truthy(agent_id) THEN "Restarting Syscheck on agent"
                                   ELSE "Restarting Syscheck on all agents")
    ELSE IF msg = HC_FORCE_RECONNECT
         THEN (IF Truthy(agent_id) THEN "Reconnecting all agents" ELSE "Reconnecting agent")
    ELSE (IF Truthy(agent_id) THEN "Restarting agent" ELSE "Restarting all agents")

RetMsg(msg, agent_id, msg_type) ==
    IF IsAR(msg_type) THEN "Command sent."
    ELSE IF msg = HC_SK_RESTART
         THEN (IF Truthy(agent_id) THEN "Restarting Syscheck on agent"
                                   ELSE "Restarting Syscheck on all agents")
    ELSE IF msg = HC_FORCE_RECONNECT
         THEN (IF Truthy(agent_id) THEN "Reconnecting agent" ELSE "Reconnecting all agents")
    ELSE (IF Truthy(agent_id) THEN "Restarting agent" ELSE "Restarting all agents")

(***************************************************************************)
(* Outcomes of an operation.                                               *)
(***************************************************************************)
Returned(op, value) ==
    [op |-> op, status |-> "return", value |-> value, exc |-> "", code |-> 0, extra |-> ""]

Raised(op, exc, code, extra) ==
    [op |-> op, status |-> "raise", value |-> "", exc |-> exc, code |-> code, extra |-> extra]

NoRequest == [msg |-> "", agent_id |-> "", msg_type |-> ""]

\* create_wazuh_queue_socket_msg not called
NoFormat ==
    [flag |-> "", str_agent_id |-> "", msg |-> "", is_restart |-> FALSE,
     done |-> FALSE, out |-> ""]

Init ==
    /\ obj = "absent"
    /\ path = ""
    /\ sock = "none"
    /\ connlog = <<>>
    /\ req = NoRequest
    /\ sent = <<>>
    /\ result = Returned("none", "")
    /\ ninv = 0
    /\ nwrites = 0
    /\ fmt = NoFormat

(***************************************************************************)
(* The socket stub.  A recorded call is <<call, argument, value, status>>: *)
(* value is what getsockopt returned or what setsockopt was given.         *)
(***************************************************************************)
Call(name, arg, value, fault) ==
    <<name, arg, value, IF fault = name THEN "error" ELSE "ok">>

\* socket.send on n bytes: the number of bytes the socket reports, or -1
\* when the call raises.  A socket that is not connected raises.
SendReturns(n) ==
    IF sock = "connected"
    THEN { -1, 0, n } \cup ({ n - 1 } \cap 1..n)
    ELSE { -1 }

(***************************************************************************)
(* WazuhQueue(path): __init__ and _connect.  fault is the socket call the  *)
(* environment makes fail, size the send buffer the kernel reports.        *)
(***************************************************************************)
\* <= in place of <
NeedsResize_LE(length_send_buffer) == length_send_buffer <= MAX_MSG_SIZE

NeedsResize(length_send_buffer) == length_send_buffer < MAX_MSG_SIZE

ConnectCalls(p, size, fault) ==
    LET s1 == << Call("socket", "AF_UNIX, SOCK_DGRAM", 0, fault) >>
        s2 == s1 \o << Call("connect", p, 0, fault) >>
        s3 == s2 \o << Call("getsockopt", "SO_SNDBUF",
                            IF fault = "getsockopt" THEN 0 ELSE size, fault) >>
        s4 == IF NeedsResize(size)
              THEN s3 \o << Call("setsockopt", "SO_SNDBUF", MAX_MSG_SIZE, fault) >>
              ELSE s3
    IN  CASE fault = "socket" -> s1
          [] fault = "connect" -> s2
          [] fault = "getsockopt" -> s3
          [] OTHER -> s4

\* the exception swallowed
ConnectFails_Swallowed(calls) == FALSE

\* an exception was raised inside the try block of _connect
ConnectFails(calls) == \E i \in 1..Len(calls) : calls[i][4] = "error"

\* the error of _send raised by _connect
ConnectError_1011(p) == Raised("init", "WazuhInternalError", 1011, p)

\* except Exception: raise WazuhInternalError(1010, self.path)
ConnectError(p) == Raised("init", "WazuhInternalError", 1010, p)

SockAfterConnect(fault) ==
    CASE fault = "socket" -> "none"
      [] fault = "connect" -> "open"
      [] OTHER -> "connected"

Construct ==
    /\ obj = "absent"
    /\ \E p \in Paths, size \in SndBufSizes, fault \in ConnectFaults :
         LET calls == ConnectCalls(p, size, fault) IN
         /\ path' = p
         /\ connlog' = calls
         /\ sock' = SockAfterConnect(fault)
         /\ IF ConnectFails(calls)
            THEN /\ obj' = "failed"
                 /\ result' = ConnectError(p)
            ELSE /\ obj' = "constructed"
                 /\ result' = Returned("init", "")
    /\ UNCHANGED <<req, sent, ninv, nwrites, fmt>>

(***************************************************************************)
(* _send: one socket.send; ret is what the socket reports (-1: it raised). *)
(* Both the exception and a report of zero bytes end in                    *)
(* WazuhInternalError(1011, self.path).                                    *)
(***************************************************************************)
\* the test of sent == 0 left out
SendFails_NoZero(ret) == ret = -1

SendFails(ret) == ret = -1 \/ ret = 0

\* every failure swallowed
_send_Swallow(ret) == Returned("_send", "")

_send(ret) ==
    IF SendFails(ret)
    THEN Raised("_send", "WazuhInternalError", 1011, path)
    ELSE Returned("_send", "")

\* a failed write written once more
Writes_Retry(data, ret) ==
    IF SendFails(ret)
    THEN << [data |-> data, ret |-> ret], [data |-> data, ret |-> ret] >>
    ELSE << [data |-> data, ret |-> ret] >>

\* the rest written after a partial write
Writes_RetryPartial(data, ret) ==
    IF ret > 0 /\ ret < Len(data)
    THEN << [data |-> data, ret |-> ret],
            [data |-> SubSeq(data, ret + 1, Len(data)), ret |-> Len(data) - ret] >>
    ELSE << [data |-> data, ret |-> ret] >>

\* the calls of socket.send made by _send on data: one, whatever it reports
Writes(data, ret) == << [data |-> data, ret |-> ret] >>

\* the error of _send let through
CommunicationError_Propagate(p) == Raised("send", "WazuhInternalError", 1011, p)

\* except: raise WazuhError(1014, extra_message=...)
CommunicationError(p) ==
    Raised("send", "WazuhError", 1014, ": WazuhQueue socket with path " \o p)

\* the socket closed when the write failed
SockAfterSend_CloseOnError(status) == IF status = "raise" THEN "closed" ELSE sock

\* self.socket after send_msg_to_agent ended with status: the method neither
\* closes nor reconnects it
SockAfterSend(status) == sock

(***************************************************************************)
(* send_msg_to_agent(msg, agent_id, msg_type)                              *)
(***************************************************************************)
SendMsgToAgent ==
    /\ obj = "constructed"
    /\ ninv < MaxInvocations
    /\ \E msg \in Payloads, agent_id \in AgentIds, msg_type \in MsgTypes :
         /\ req' = [msg |-> msg, agent_id |-> agent_id, msg_type |-> msg_type]
         /\ ninv' = ninv + 1
         /\ IF InvalidCommand(msg, msg_type)
            THEN /\ result' = Raised("send", "WazuhInternalError", 1012, msg)
                 /\ sent' = <<>>
                 /\ nwrites' = nwrites
            ELSE LET data == encode(SocketMsg(msg, agent_id, msg_type)) IN
                 \E ret \in SendReturns(Len(data)) :
                   /\ sent' = Writes(data, ret)
                   /\ nwrites' = nwrites + Len(Writes(data, ret))
                   /\ IF _send(ret).status = "raise"
                      THEN result' = CommunicationError(path)
                      ELSE result' = Returned("send", RetMsg(msg, agent_id, msg_type))
         /\ sock' = SockAfterSend(result'.status)
    /\ UNCHANGED <<obj, path, connlog, fmt>>

(***************************************************************************)
(* close()                                                                 *)
(***************************************************************************)
Close ==
    /\ obj = "constructed"
    /\ sock' = "closed"
    /\ result' = Returned("close", "")
    /\ UNCHANGED <<obj, path, connlog, req, sent, ninv, nwrites, fmt>>

Next == Construct \/ SendMsgToAgent \/ Close

Spec == Init /\ [][Next]_vars

(***************************************************************************)
(* create_wazuh_queue_socket_msg called on its own: the arguments are      *)
(* drawn by InitFormat, Format applies the function.                       *)
(***************************************************************************)
InitFormat ==
    /\ obj = "absent"
    /\ path = ""
    /\ sock = "none"
    /\ connlog = <<>>
    /\ req = NoRequest
    /\ sent = <<>>
    /\ result = Returned("none", "")
    /\ ninv = 0
    /\ nwrites = 0
    /\ \E flag \in FmtFlags, str_agent_id \in FmtTargets, msg \in Payloads,
          is_restart \in BOOLEAN :
         fmt = [flag |-> flag, str_agent_id |-> str_agent_id, msg |-> msg,
                is_restart |-> is_restart, done |-> FALSE, out |-> ""]

Format ==
    /\ ~fmt.done
    /\ fmt' = [fmt EXCEPT
                 !.out = create_wazuh_queue_socket_msg(fmt.flag, fmt.str_agent_id,
                                                       fmt.msg, fmt.is_restart),
                 !.done = TRUE]
    /\ UNCHANGED chan

NextFormat == Format

SpecFormat == InitFormat /\ [][NextFormat]_vars

(***************************************************************************)
(* Properties.  sent, req and result describe the last invocation of       *)
(* send_msg_to_agent as long as result.op = "send".                        *)
(***************************************************************************)

\* C1: every framed wire message carries the flag of the four-row table over
\* (agent_id non-empty?, payload is 'syscheck restart' or 'force_reconnect'?):
\* N!S, NNS, A!N, ANN.  Framed is every message but an active-response one
\* addressed to '000'; the flag is the token after '(msg_to_agent) [] '.
C1_FlagTable ==
    (sent # <<>> /\ ~(req.msg_type = "ar-message" /\ req.agent_id = "000")) =>
        LET targeted == req.agent_id # ""
            special == req.msg \in { "syscheck restart", "force_reconnect" }
            flag == CASE targeted /\ special -> "N!S"
                      [] targeted /\ ~special -> "NNS"
                      [] ~targeted /\ special -> "A!N"
                      [] OTHER -> "ANN"
        IN  SubSeq(sent[1].data, 1, 22) = encode("(msg_to_agent) [] " \o flag \o " ")

C1_Witness ==
    /\ result.op = "send"
    /\ sent # <<>>
    /\ req.agent_id = "007"
    /\ req.msg = "force_reconnect"
    /\ SubSeq(sent[1].data, 19, 21) = encode("N!S")

\* C2: a control-type invocation whose payload is none of the four
\* recognized literals raises WazuhInternalError(1012) and writes nothing to
\* the socket: the count of writes is the one before the invocation.
C2_InvalidCommandNoWrite ==
    [][ ( /\ ninv' = ninv + 1
          /\ req'.msg_type # "ar-message"
          /\ req'.msg \notin { "syscheck restart", "force_reconnect", "restart-ossec0",
                               RESTART_AGENTS_JSON } )
        => ( /\ result'.status = "raise"
             /\ result'.exc = "WazuhInternalError"
             /\ result'.code = 1012
             /\ nwrites' = nwrites
             /\ sent' = <<>> ) ]_vars

C2_Witness ==
    /\ result.op = "send"
    /\ result.code = 1012
    /\ req.msg_type = "control"
    /\ req.msg = "!test.sh arg1"
    /\ ninv = 2
    /\ nwrites = 1

\* C3 as stated: a wire message ends with the restart suffix iff the payload
\* is one of the two restart-agents variants, whatever the message type.
C3_Original ==
    sent # <<>> =>
        LET w == sent[1].data
            suffix == encode(" - null (from_the_server) (no_rule_id)")
            present == /\ Len(w) >= Len(suffix)
                       /\ SubSeq(w, Len(w) - Len(suffix) + 1, Len(w)) = suffix
        IN  present <=> req.msg \in { "restart-ossec0", RESTART_AGENTS_JSON }

\* C3 amended: the wire message is the frame followed by the restart suffix
\* iff the message type is not active-response and the payload is one of the
\* two restart-agents variants; every other wire message ends with the
\* payload itself (the frame without suffix, or the raw payload for '000').
C3_SuffixIffControlRestart ==
    sent # <<>> =>
        LET w == sent[1].data
            target == IF req.agent_id # "" THEN req.agent_id ELSE "(null)"
            Frame(flag) == "(msg_to_agent) [] " \o flag \o " " \o target \o " " \o req.msg
            withSuffix == \E flag \in { "NNS", "N!S", "ANN", "A!N" } :
                w = encode(Frame(flag) \o " - null (from_the_server) (no_rule_id)")
            without == \/ \E flag \in { "NNS", "N!S", "ANN", "A!N" } : w = encode(Frame(flag))
                       \/ w = encode(req.msg)
            restart == /\ req.msg_type # "ar-message"
                       /\ req.msg \in { "restart-ossec0", RESTART_AGENTS_JSON }
        IN  /\ withSuffix <=> restart
            /\ ~restart => without

C3_Witness ==
    /\ sent # <<>>
    /\ req.msg_type = "ar-message"
    /\ req.msg = "restart-ossec0"
    /\ req.agent_id = "007"
    /\ sent[1].data = encode("(msg_to_agent) [] NNS 007 restart-ossec0")

\* C4: an active-response invocation addressed to '000' hands the socket the
\* encoded payload and nothing else, also when the payload is a control or a
\* restart literal.
C4_RawToManager ==
    (sent # <<>> /\ req.msg_type = "ar-message" /\ req.agent_id = "000") =>
        sent[1].data = encode(req.msg)

C4_Witness ==
    /\ sent # <<>>
    /\ req.msg_type = "ar-message"
    /\ req.agent_id = "000"
    /\ req.msg = "restart-ossec0"
    /\ sent[1].data = encode("restart-ossec0")
    /\ result.op = "send"
    /\ result.status = "return"

\* C5: a control-type invocation that returns, returns the message of the
\* command x targeting table and no other string.
C5_ControlMessages ==
    (result.op = "send" /\ result.status = "return" /\ req.msg_type # "ar-message") =>
        LET targeted == req.agent_id # "" IN
        CASE req.msg = "syscheck restart" ->
                result.value = IF targeted THEN "Restarting Syscheck on agent"
                                           ELSE "Restarting Syscheck on all agents"
          [] req.msg = "force_reconnect" ->
                result.value = IF targeted THEN "Reconnecting agent"
                                           ELSE "Reconnecting all agents"
          [] req.msg \in { "restart-ossec0", RESTART_AGENTS_JSON } ->
                result.value = IF targeted THEN "Restarting agent"
                                           ELSE "Restarting all agents"
          [] OTHER -> FALSE

C5_Witness ==
    /\ result.op = "send"
    /\ result.status = "return"
    /\ req.msg_type = ""
    /\ req.msg = RESTART_AGENTS_JSON
    /\ req.agent_id = ""
    /\ result.value = "Restarting all agents"

\* C6: an active-response invocation never raises WazuhInternalError(1012),
\* for any payload and agent_id, and when it returns it returns
\* 'Command sent.'.
C6_ActiveResponseLegal ==
    (result.op = "send" /\ req.msg_type = "ar-message") =>
        /\ ~(result.status = "raise" /\ result.code = 1012)
        /\ sent # <<>>
        /\ result.status = "return" => result.value = "Command sent."

C6_Witness ==
    /\ result.op = "send"
    /\ req.msg_type = "ar-message"
    /\ req.msg = "!test.sh arg1"
    /\ req.agent_id = ""
    /\ result.status = "return"
    /\ result.value = "Command sent."

\* C7 as stated: force_reconnect to agent '007' on the control channel puts
\* '(msg_to_agent) [] NNS 007 force_reconnect' on the wire and returns
\* 'Reconnecting agent'.
C7_Original ==
    ( /\ result.op = "send"
      /\ req = [msg |-> "force_reconnect", agent_id |-> "007", msg_type |-> "control"]
      /\ sock = "connected"
      /\ sent # <<>>
      /\ sent[1].ret = Len(sent[1].data) ) =>
        /\ sent[1].data = encode("(msg_to_agent) [] NNS 007 force_reconnect")
        /\ result = Returned("send", "Reconnecting agent")

\* C7 amended: the wire bytes are '(msg_to_agent) [] N!S 007 force_reconnect'
\* and the returned message is 'Reconnecting agent'.
C7_ForceReconnectTargeted ==
    ( /\ result.op = "send"
      /\ req = [msg |-> "force_reconnect", agent_id |-> "007", msg_type |-> "control"] ) =>
        /\ Len(sent) = 1
        /\ sent[1].data = encode("(msg_to_agent) [] N!S 007 force_reconnect")
        /\ (sock = "connected" /\ sent[1].ret = Len(sent[1].data)) =>
               result = Returned("send", "Reconnecting agent")

C7_Witness ==
    /\ result = Returned("send", "Reconnecting agent")
    /\ req = [msg |-> "force_reconnect", agent_id |-> "007", msg_type |-> "control"]
    /\ sock = "connected"
    /\ sent = << [data |-> encode("(msg_to_agent) [] N!S 007 force_reconnect"), ret |-> 41] >>

\* C8 as stated: 'syscheck restart' with an empty agent_id on the control
\* channel puts '(msg_to_agent) [] ANN (null) syscheck restart' on the wire
\* and returns 'Restarting Syscheck on all agents'.
C8_Original ==
    ( /\ result.op = "send"
      /\ req = [msg |-> "syscheck restart", agent_id |-> "", msg_type |-> "control"]
      /\ sock = "connected"
      /\ sent # <<>>
      /\ sent[1].ret = Len(sent[1].data) ) =>
        /\ sent[1].data = encode("(msg_to_agent) [] ANN (null) syscheck restart")
        /\ result = Returned("send", "Restarting Syscheck on all agents")

\* C8 amended: the wire bytes are
\* '(msg_to_agent) [] A!N (null) syscheck restart' and the return value is
\* 'Restarting Syscheck on all agents'.
C8_SyscheckRestartBroadcast ==
    ( /\ result.op = "send"
      /\ req = [msg |-> "syscheck restart", agent_id |-> "", msg_type |-> "control"] ) =>
        /\ Len(sent) = 1
        /\ sent[1].data = encode("(msg_to_agent) [] A!N (null) syscheck restart")
        /\ (sock = "connected" /\ sent[1].ret = Len(sent[1].data)) =>
               result = Returned("send", "Restarting Syscheck on all agents")

C8_Witness ==
    /\ result = Returned("send", "Restarting Syscheck on all agents")
    /\ req = [msg |-> "syscheck restart", agent_id |-> "", msg_type |-> "control"]
    /\ sock = "connected"
    /\ sent = << [data |-> encode("(msg_to_agent) [] A!N (null) syscheck restart"),
                  ret |-> 45] >>

\* C9: when getsockopt reports a send buffer below 6400, _connect makes
\* exactly one setsockopt call, with the value 6400; when it reports 6400 or
\* more, it makes none.  The query follows the connect, the resize follows
\* the query, and both precede every socket write.
C9_BufferNegotiation ==
    [][ LET calls == connlog'
            Idx(name) == { i \in 1..Len(calls) : calls[i][1] = name }
            query == { i \in Idx("getsockopt") : calls[i][4] = "ok" }
        IN  /\ \A i \in query :
                 /\ calls[i][3] < 6400 =>
                        /\ Cardinality(Idx("setsockopt")) = 1
                        /\ \A j \in Idx("setsockopt") : calls[j][3] = 6400 /\ j = i + 1
                 /\ calls[i][3] >= 6400 => Idx("setsockopt") = {}
                 /\ i > 1 /\ calls[i - 1][1] = "connect" /\ calls[i - 1][4] = "ok"
            /\ Idx("setsockopt") # {} => query # {}
            /\ nwrites' > 0 => (query # {} /\ connlog' = connlog)
      ]_vars

C9_Witness ==
    /\ obj = "constructed"
    /\ Len(connlog) = 4
    /\ connlog[3] = <<"getsockopt", "SO_SNDBUF", 6399, "ok">>
    /\ connlog[4] = <<"setsockopt", "SO_SNDBUF", 6400, "ok">>
    /\ nwrites > 0

\* C10: a failure of socket(), connect(), getsockopt() or setsockopt() makes
\* the constructor raise WazuhInternalError(1010) carrying the path; nothing
\* else is raised by it, the failing call is the last one made and no call
\* is made twice.
C10_ChannelUnavailable ==
    result.op = "init" =>
        LET failed == { i \in 1..Len(connlog) : connlog[i][4] = "error" } IN
        /\ failed # {} =>
               /\ result.status = "raise"
               /\ result.exc = "WazuhInternalError"
               /\ result.code = 1010
               /\ result.extra = path
               /\ obj = "failed"
               /\ failed = { Len(connlog) }
        /\ failed = {} => (result.status = "return" /\ obj = "constructed")
        /\ \A i, j \in 1..Len(connlog) : connlog[i][1] = connlog[j][1] => i = j

C10_Witness ==
    /\ result.op = "init"
    /\ obj = "failed"
    /\ result.code = 1010
    /\ result.extra = "/var/ossec/queue/alerts/ar"
    /\ Len(connlog) = 4
    /\ connlog[4] = <<"setsockopt", "SO_SNDBUF", 6400, "error">>

\* C11: when the socket write of a validated message raises or reports zero
\* bytes, send_msg_to_agent raises WazuhError(1014) naming the socket path:
\* it returns no success message and raises neither 1012 nor 1011.
C11_CommunicationError ==
    (result.op = "send" /\ sent # <<>> /\ sent[1].ret \in { -1, 0 }) =>
        /\ result.status = "raise"
        /\ result.exc = "WazuhError"
        /\ result.code = 1014
        /\ result.extra = ": WazuhQueue socket with path " \o path
        /\ result.value = ""

C11_Witness ==
    /\ result.op = "send"
    /\ sock = "connected"
    /\ Len(sent) = 1
    /\ sent[1].ret = 0
    /\ Len(sent[1].data) > 0
    /\ result.code = 1014
    /\ result.extra = ": WazuhQueue socket with path /var/ossec/queue/alerts/ar"

\* C12: an invocation of send_msg_to_agent makes one socket write when its
\* arguments pass validation and none otherwise, also when the write fails;
\* nothing else writes, so the writes never outnumber the invocations.
C12_AtMostOneWrite ==
    [][ /\ ninv' = ninv + 1 =>
              LET valid == \/ req'.msg_type = "ar-message"
                           \/ req'.msg \in { "syscheck restart", "force_reconnect",
                                             "restart-ossec0", RESTART_AGENTS_JSON }
              IN  /\ nwrites' = nwrites + (IF valid THEN 1 ELSE 0)
                  /\ Len(sent') = nwrites' - nwrites
        /\ ninv' = ninv => nwrites' = nwrites
        /\ nwrites' <= ninv'
      ]_vars

C12_Witness ==
    /\ ninv = 2
    /\ nwrites = 1
    /\ result.op = "send"
    /\ result.code = 1014
    /\ Len(sent) = 1
    /\ sent[1].ret = -1

\* C13: once close() was called, an invocation of send_msg_to_agent whose
\* arguments pass validation raises WazuhError(1014); it returns no success
\* message.
C13_SendAfterClose ==
    [][ ( /\ sock = "closed"
          /\ ninv' = ninv + 1
          /\ \/ req'.msg_type = "ar-message"
             \/ req'.msg \in { "syscheck restart", "force_reconnect",
                               "restart-ossec0", RESTART_AGENTS_JSON } )
        => ( /\ result'.status = "raise"
             /\ result'.exc = "WazuhError"
             /\ result'.code = 1014 ) ]_vars

C13_Witness ==
    /\ sock = "closed"
    /\ result.op = "send"
    /\ req.msg = "restart-ossec0"
    /\ req.msg_type = ""
    /\ result.code = 1014
    /\ Len(sent) = 1

\* C14: a targeted control command is framed with the flag NNS or N!S and
\* with the agent identifier as target; a broadcast command of any message
\* type is framed with the target '(null)'.
C14_TargetField ==
    sent # <<>> =>
        LET w == sent[1].data
            StartsWith(p) == Len(w) >= Len(p) /\ SubSeq(w, 1, Len(p)) = encode(p)
        IN  /\ (req.msg_type # "ar-message" /\ req.agent_id # "") =>
                   \E flag \in { "NNS", "N!S" } :
                       StartsWith("(msg_to_agent) [] " \o flag \o " " \o req.agent_id \o " ")
            /\ req.agent_id = "" =>
                   \E flag \in { "ANN", "A!N" } :
                       StartsWith("(msg_to_agent) [] " \o flag \o " (null) ")

C14_Witness ==
    /\ Len(sent) = 1
    /\ req.msg_type = "control"
    /\ req.agent_id = "000"
    /\ req.msg = "restart-ossec0"
    /\ sent[1].data =
           encode("(msg_to_agent) [] NNS 000 restart-ossec0 - null (from_the_server) (no_rule_id)")

\* C15 as stated: every wire message handed to the socket, of either shape,
\* has a non-empty flag and has the agent identifier or the '(null)'
\* placeholder as its target.
C15_Original ==
    sent # <<>> =>
        LET w == sent[1].data
            target == IF req.agent_id # "" THEN req.agent_id ELSE "(null)"
            head == encode("(msg_to_agent) [] ")
            rest == encode(" " \o target \o " ")
        IN  \E n \in 1..3 :
                /\ Len(w) >= Len(head) + n + Len(rest)
                /\ SubSeq(w, 1, Len(head)) = head
                /\ \A i \in 1..n : w[Len(head) + i] # 32
                /\ SubSeq(w, Len(head) + n + 1, Len(head) + n + Len(rest)) = rest

\* C15 amended: every framed wire message has a non-empty flag and has the
\* agent identifier or the '(null)' placeholder as its target; the raw shape
\* (active-response addressed to '000') is the payload alone, without flag
\* and target.
C15_FramedHasFlagAndTarget ==
    sent # <<>> =>
        LET w == sent[1].data
            target == IF req.agent_id # "" THEN req.agent_id ELSE "(null)"
            head == encode("(msg_to_agent) [] ")
            rest == encode(" " \o target \o " ")
        IN  IF req.msg_type = "ar-message" /\ req.agent_id = "000"
            THEN w = encode(req.msg)
            ELSE \E n \in 1..3 :
                    /\ Len(w) >= Len(head) + n + Len(rest)
                    /\ SubSeq(w, 1, Len(head)) = head
                    /\ \A i \in 1..n : w[Len(head) + i] # 32
                    /\ SubSeq(w, Len(head) + n + 1, Len(head) + n + Len(rest)) = rest

C15_Witness ==
    /\ Len(sent) = 1
    /\ req.msg_type = "ar-message"
    /\ req.agent_id = ""
    /\ req.msg = ""
    /\ sent[1].data = encode("(msg_to_agent) [] ANN (null) ")

\* C16: send_msg_to_agent returns a success message only if, during that
\* invocation, it made exactly one socket write, of the whole encoded wire
\* string, and the write reported a non-zero byte count.
C16_SuccessMeansOneWrite ==
    (result.op = "send" /\ result.status = "return") =>
        LET target == IF req.agent_id # "" THEN req.agent_id ELSE "(null)"
            Frame(flag) == "(msg_to_agent) [] " \o flag \o " " \o target \o " " \o req.msg
            wires ==
                { encode(req.msg) } \cup
                { encode(Frame(flag)) : flag \in { "NNS", "N!S", "ANN", "A!N" } } \cup
                { encode(Frame(flag) \o " - null (from_the_server) (no_rule_id)") :
                      flag \in { "NNS", "N!S", "ANN", "A!N" } }
        IN  /\ Len(sent) = 1
            /\ nwrites >= 1
            /\ sent[1].data \in wires
            /\ sent[1].ret > 0

C16_Witness ==
    /\ result = Returned("send", "Restarting all agents")
    /\ ninv = 2
    /\ nwrites = 2
    /\ Len(sent) = 1
    /\ sent[1].ret = Len(sent[1].data)
    /\ sent[1].data =
           encode("(msg_to_agent) [] ANN (null) restart-ossec0 - null (from_the_server) (no_rule_id)")

\* C17: no socket write and no invocation of send_msg_to_agent happens
\* unless the constructor made every call of _connect succeed: socket() and
\* connect() are the first two recorded calls and no recorded call failed.
C17_ConnectBeforeSend ==
    (nwrites > 0 \/ ninv > 0 \/ sent # <<>>) =>
        /\ obj = "constructed"
        /\ Len(connlog) >= 3
        /\ connlog[1][1] = "socket"
        /\ connlog[2] = <<"connect", path, 0, "ok">>
        /\ \A i \in 1..Len(connlog) : connlog[i][4] = "ok"

C17_Witness ==
    /\ nwrites = 2
    /\ obj = "constructed"
    /\ sock = "connected"
    /\ connlog[2] = <<"connect", "/var/ossec/queue/alerts/execq", 0, "ok">>

\* C18: send_msg_to_agent leaves the socket, the path and the record of
\* connect calls as they were, whether it returns, raises 1012 or raises
\* 1014; connect() was called at most once, and the socket becomes closed
\* only in a step of close().
C18_SendKeepsConnection ==
    [][ /\ ninv' = ninv + 1 =>
              /\ result'.op = "send"
              /\ sock' = sock
              /\ connlog' = connlog
              /\ path' = path
              /\ obj' = obj
        /\ (sock' = "closed" /\ sock # "closed") => (result'.op = "close" /\ ninv' = ninv)
        /\ Cardinality({ i \in 1..Len(connlog') : connlog'[i][1] = "connect" }) <= 1
      ]_vars

C18_Witness ==
    /\ result.op = "send"
    /\ result.code = 1014
    /\ sock = "connected"
    /\ ninv = 2
    /\ Cardinality({ i \in 1..Len(connlog) : connlog[i][1] = "connect" }) = 1

\* C19 as stated: when the constructor fails after socket() succeeded, the
\* socket it opened is released by the time WazuhInternalError(1010) is
\* raised.
C19_Original ==
    obj = "failed" => sock \in { "none", "closed" }

\* C20: create_wazuh_queue_socket_msg returns
\* '(msg_to_agent) [] <flag> <target> <payload>', followed by
\* ' - null (from_the_server) (no_rule_id)' exactly when is_restart is true,
\* for every flag, target and payload, empty ones included; it touches
\* neither the socket nor the rest of the object.
C20_Formatter ==
    fmt.done =>
        /\ fmt.out =
               "(msg_to_agent) [] " \o fmt.flag \o " " \o fmt.str_agent_id \o " " \o fmt.msg
                   \o (IF fmt.is_restart THEN " - null (from_the_server) (no_rule_id)" ELSE "")
        /\ Len(fmt.out) =
               20 + Len(fmt.flag) + Len(fmt.str_agent_id) + Len(fmt.msg)
                  + (IF fmt.is_restart THEN 38 ELSE 0)
        /\ nwrites = 0
        /\ sent = <<>>
        /\ sock = "none"

C20_Witness ==
    /\ fmt.done
    /\ fmt.flag = ""
    /\ fmt.str_agent_id = "(null)"
    /\ fmt.msg = ""
    /\ fmt.is_restart
    /\ fmt.out = "(msg_to_agent) []  (null)  - null (from_the_server) (no_rule_id)"

\* C21: on the control channel the wire message of 'restart-ossec0' and of
\* the restart-wazuh0 JSON envelope is the frame followed by the restart
\* suffix, and the wire message of 'syscheck restart' and of
\* 'force_reconnect' is the frame alone.
C21_ControlIsRestart ==
    (sent # <<>> /\ req.msg_type # "ar-message") =>
        LET target == IF req.agent_id # "" THEN req.agent_id ELSE "(null)"
            plain == IF req.agent_id # "" THEN "NNS" ELSE "ANN"
            bang == IF req.agent_id # "" THEN "N!S" ELSE "A!N"
        IN  /\ req.msg \in { "restart-ossec0", RESTART_AGENTS_JSON } =>
                   sent[1].data =
                       encode("(msg_to_agent) [] " \o plain \o " " \o target \o " " \o req.msg
                                  \o " - null (from_the_server) (no_rule_id)")
            /\ req.msg \in { "syscheck restart", "force_reconnect" } =>
                   sent[1].data =
                       encode("(msg_to_agent) [] " \o bang \o " " \o target \o " " \o req.msg)

C21_Witness ==
    /\ Len(sent) = 1
    /\ req = [msg |-> RESTART_AGENTS_JSON, agent_id |-> "007", msg_type |-> ""]
    /\ SubSeq(sent[1].data, Len(sent[1].data) - 37, Len(sent[1].data))
           = encode(" - null (from_the_server) (no_rule_id)")
    /\ SubSeq(sent[1].data, 1, 26) = encode("(msg_to_agent) [] NNS 007 ")

\* C22: a socket write that reports a non-zero count below the length of the
\* data is taken as done: the invocation made that one write only and
\* returns its success message.
C22_PartialSendIsSuccess ==
    ( /\ result.op = "send"
      /\ sent # <<>>
      /\ sent[1].ret > 0
      /\ sent[1].ret < Len(sent[1].data) ) =>
        /\ Len(sent) = 1
        /\ result.status = "return"
        /\ result.value \in
               { "Command sent.", "Restarting Syscheck on agent",
                 "Restarting Syscheck on all agents", "Reconnecting agent",
                 "Reconnecting all agents", "Restarting agent", "Restarting all agents" }

C22_Witness ==
    /\ result = Returned("send", "Reconnecting all agents")
    /\ Len(sent) = 1
    /\ sent[1].data = encode("(msg_to_agent) [] A!N (null) force_reconnect")
    /\ sent[1].ret = Len(sent[1].data) - 1
    /\ nwrites = 1

\* C23: on a closed channel a control-type invocation with an unrecognized
\* payload raises WazuhInternalError(1012), not WazuhError(1014), and makes
\* no socket write.
C23_ValidationBeforeTransport ==
    [][ ( /\ sock # "connected"
          /\ ninv' = ninv + 1
          /\ req'.msg_type # "ar-message"
          /\ req'.msg \notin { "syscheck restart", "force_reconnect", "restart-ossec0",
                               RESTART_AGENTS_JSON } )
        => ( /\ result'.exc = "WazuhInternalError"
             /\ result'.code = 1012
             /\ result'.extra = req'.msg
             /\ sent' = <<>>
             /\ nwrites' = nwrites
             /\ sock' = sock ) ]_vars

C23_Witness ==
    /\ sock = "closed"
    /\ result.op = "send"
    /\ result.code = 1012
    /\ req.msg = "restart-ossec0 arg1"
    /\ req.msg_type = ""
    /\ sent = <<>>
    /\ nwrites = 0

\* C24: the message type is compared with 'ar-message' and nothing else:
\* under every other value, the default '' included, an unrecognized payload
\* is rejected with 1012 and a returned message is one of the control
\* channel; under 'ar-message' nothing is rejected and the returned message
\* is 'Command sent.'.
C24_TwoWayBranch ==
    result.op = "send" =>
        LET recognized == req.msg \in { "syscheck restart", "force_reconnect",
                                        "restart-ossec0", RESTART_AGENTS_JSON }
            rejected == result.status = "raise" /\ result.code = 1012
        IN  /\ rejected <=> (req.msg_type # "ar-message" /\ ~recognized)
            /\ result.status = "return" =>
                   (result.value = "Command sent." <=> req.msg_type = "ar-message")

C24_Witness ==
    /\ result.op = "send"
    /\ req.msg_type = ""
    /\ req.msg = "!test.sh arg1"
    /\ req.agent_id = "007"
    /\ result.code = 1012

\* C25: the socket is handed the bare payload only for an active-response
\* message addressed to '000'.  Every other message is framed: a control
\* command for agent '000' is accepted and framed with an N flag and the
\* target '000', an active-response message for another agent or for all
\* agents is framed as well.
C25_RawOnlyForManagerAR ==
    result.op = "send" =>
        LET raw == req.msg_type = "ar-message" /\ req.agent_id = "000"
            recognized == req.msg \in { "syscheck restart", "force_reconnect",
                                        "restart-ossec0", RESTART_AGENTS_JSON }
            target == IF req.agent_id # "" THEN req.agent_id ELSE "(null)"
            Framed(w) ==
                /\ Len(w) >= 23 + Len(target) + Len(req.msg)
                /\ \E flag \in (IF req.agent_id # "" THEN { "NNS", "N!S" }
                                                     ELSE { "ANN", "A!N" }) :
                       SubSeq(w, 1, 23 + Len(target)) =
                           encode("(msg_to_agent) [] " \o flag \o " " \o target \o " ")
        IN  /\ (req.msg_type = "ar-message" \/ recognized) => Len(sent) = 1
            /\ sent # <<>> => (Framed(sent[1].data) <=> ~raw)
            /\ (sent # <<>> /\ raw) => Len(sent[1].data) = Len(req.msg)

C25_Witness ==
    /\ result.op = "send"
    /\ req = [msg |-> "force_reconnect", agent_id |-> "000", msg_type |-> "control"]
    /\ Len(sent) = 1
    /\ sent[1].data = encode("(msg_to_agent) [] N!S 000 force_reconnect")
    /\ result.status = "return"

\* C26 as stated: an active-response message for a target other than '000'
\* is the frame without suffix, with the flag NNS when targeted and ANN when
\* broadcast, whatever the payload.
C26_Original ==
    (sent # <<>> /\ req.msg_type = "ar-message" /\ req.agent_id # "000") =>
        LET target == IF req.agent_id # "" THEN req.agent_id ELSE "(null)"
            flag == IF req.agent_id # "" THEN "NNS" ELSE "ANN"
        IN  sent[1].data =
                encode("(msg_to_agent) [] " \o flag \o " " \o target \o " " \o req.msg)

\* C26 amended: an active-response message for a target other than '000' is
\* the frame without suffix; its flag is NNS (targeted) or ANN (broadcast),
\* except for the payloads 'syscheck restart' and 'force_reconnect', whose
\* flag is N!S (targeted) or A!N (broadcast).
C26_ARFrame ==
    (sent # <<>> /\ req.msg_type = "ar-message" /\ req.agent_id # "000") =>
        LET target == IF req.agent_id # "" THEN req.agent_id ELSE "(null)"
            special == req.msg \in { "syscheck restart", "force_reconnect" }
            flag == IF req.agent_id # ""
                    THEN (IF special THEN "N!S" ELSE "NNS")
                    ELSE (IF special THEN "A!N" ELSE "ANN")
        IN  sent[1].data =
                encode("(msg_to_agent) [] " \o flag \o " " \o target \o " " \o req.msg)

C26_Witness ==
    /\ Len(sent) = 1
    /\ req = [msg |-> "syscheck restart", agent_id |-> "007", msg_type |-> "ar-message"]
    /\ sent[1].data = encode("(msg_to_agent) [] N!S 007 syscheck restart")
    /\ result = Returned("send", "Command sent.")

\* C27: on a connected socket that accepts the write, the bytes written and
\* the value returned, or the rejection with 1012, are a function of
\* (msg, agent_id, msg_type) alone: whatever was invoked before, they are
\* the ones this function gives.
C27_Deterministic ==
    (result.op = "send" /\ sock = "connected"
        /\ (sent # <<>> => sent[1].ret = Len(sent[1].data) /\ sent[1].ret > 0)) =>
        LET ar == req.msg_type = "ar-message"
            targeted == req.agent_id # ""
            special == req.msg \in { "syscheck restart", "force_reconnect" }
            restart == req.msg \in { "restart-ossec0", RESTART_AGENTS_JSON }
            target == IF targeted THEN req.agent_id ELSE "(null)"
            flag == IF targeted THEN (IF special THEN "N!S" ELSE "NNS")
                                ELSE (IF special THEN "A!N" ELSE "ANN")
            frame == "(msg_to_agent) [] " \o flag \o " " \o target \o " " \o req.msg
            wire == IF ar /\ req.agent_id = "000" THEN req.msg
                    ELSE IF ~ar /\ restart
                         THEN frame \o " - null (from_the_server) (no_rule_id)"
                         ELSE frame
            message == IF ar THEN "Command sent."
                       ELSE IF req.msg = "syscheck restart"
                            THEN "Restarting Syscheck on " \o
                                     (IF targeted THEN "agent" ELSE "all agents")
                       ELSE IF req.msg = "force_reconnect"
                            THEN "Reconnecting " \o (IF targeted THEN "agent" ELSE "all agents")
                       ELSE "Restarting " \o (IF targeted THEN "agent" ELSE "all agents")
        IN  IF ~ar /\ ~special /\ ~restart
            THEN sent = <<>> /\ result = Raised("send", "WazuhInternalError", 1012, req.msg)
            ELSE /\ sent = << [data |-> encode(wire), ret |-> Len(wire)] >>
                 /\ result = Returned("send", message)

C27_Witness ==
    /\ result = Returned("send", "Restarting all agents")
    /\ sock = "connected"
    /\ ninv = 2
    /\ nwrites = 1
    /\ req = [msg |-> "restart-ossec0", agent_id |-> "", msg_type |-> "control"]
    /\ sent[1].ret = Len(sent[1].data)

====
